---- MODULE Spec2Model ----
(***************************************************************************)
(* Model of the Equation-to-LaTeX component (src/App.tsx): the React state *)
(* of App, its event handlers, the FileReader / remote-call completions of *)
(* handleGenerateClick, the object-URL cleanup effect and the service      *)
(* function getLatexFromImage.                                             *)
(*                                                                         *)
(* JavaScript strings that the code inspects (startsWith, trim, includes)  *)
(* are sequences of one-character strings, so that those operations are    *)
(* computed and not assumed.  The messages stored in the `error` state are *)
(* never inspected by the code and are kept as plain strings.              *)
(***************************************************************************)
EXTENDS Integers, Sequences, FiniteSets, TLC

VARIABLES
    imageFile,    \* useState<ImageFile | null>        (line 12)
    latexCode,    \* useState<string>, '' is <<>>      (line 13)
    isLoading,    \* useState<boolean>                 (line 14)
    error,        \* useState<string>                  (line 15)
    isDragging,   \* useState<boolean>                 (line 16)
    mounted,      \* the component has not been torn down
    nextHandle,   \* next object URL that URL.createObjectURL hands out
    revokeCount,  \* object URL -> number of URL.revokeObjectURL calls on it
    inflight,     \* conversions started by handleGenerateClick, not yet completed
    ev            \* the last event handled (history of one step)

vars == <<imageFile, latexCode, isLoading, error, isDragging, mounted,
          nextHandle, revokeCount, inflight, ev>>

----------------------------------------------------------------------------
(* Bounds *)

MaxHandles == 3     \* object URLs created over one life of the component
MaxConv == 2        \* conversions that may be outstanding at once
MaxTextLen == 3     \* length of a remote response text
MaxItems == 2       \* clipboard items / files carried by one event

----------------------------------------------------------------------------
(* String constants of the source, character by character *)

ImagePrefix == <<"i","m","a","g","e","/">>
ApiKeyNeedle == <<"A","P","I"," ","k","e","y"," ","n","o","t"," ","v","a","l","i","d">>
EmptyResponseMsg == <<"G","e","m","i","n","i"," ","r","e","t","u","r","n","e","d"," ","a","n"," ","e","m","p","t","y"," ","r","e","s","p","o","n","s","e","."," ","T","h","e"," ","e","q","u","a","t","i","o","n"," ","m","i","g","h","t"," ","n","o","t"," ","b","e"," ","c","l","e","a","r"," ","i","n"," ","t","h","e"," ","i","m","a","g","e",".">>
InvalidApiKeyMsg == <<"I","n","v","a","l","i","d"," ","A","P","I"," ","K","e","y","."," ","P","l","e","a","s","e"," ","c","h","e","c","k"," ","y","o","u","r"," ","c","o","n","f","i","g","u","r","a","t","i","o","n",".">>
GenericFailureMsg == <<"F","a","i","l","e","d"," ","t","o"," ","g","e","n","e","r","a","t","e"," ","L","a","T","e","X"," ","f","r","o","m"," ","t","h","e"," ","i","m","a","g","e","."," ","P","l","e","a","s","e"," ","t","r","y"," ","a","g","a","i","n"," ","w","i","t","h"," ","a"," ","c","l","e","a","r","e","r"," ","i","m","a","g","e",".">>

InvalidFileMsg == "Please select or paste a valid image file."
NoImageMsg == "Please upload an image first."
ReadFailedMsg == "Failed to read the image file."

----------------------------------------------------------------------------
(* Inputs the environment can supply *)

TypePng == <<"i","m","a","g","e","/","p","n","g">>
TypeGif == <<"i","m","a","g","e","/","g","i","f">>
TypeText == <<"t","e","x","t","/","p","l","a","i","n">>
TypeBare == <<"i","m","a","g","e">>
TypeNone == <<>>

Files ==
    { [name |-> "eq.png",   type |-> TypePng],
      [name |-> "eq.gif",   type |-> TypeGif],
      [name |-> "notes.txt", type |-> TypeText],
      [name |-> "bare",     type |-> TypeBare],
      [name |-> "untyped",  type |-> TypeNone] }

NoFile == [name |-> "null", type |-> TypeNone]
NoImage == [file |-> NoFile, preview |-> 0]

SeqsUpTo(S, n) == UNION { [1..k -> S] : k \in 0..n }

\* FileList | null, as handed to handleFileChange and carried by a drop
NoFiles == <<NoFile>>
FileLists == SeqsUpTo(Files, MaxItems) \cup {NoFiles}

\* DataTransferItem: kind, and the file getAsFile() returns (type is file.type)
ClipboardFiles == { f \in Files : f.name \in {"eq.png", "eq.gif", "notes.txt"} }
Items ==
    [kind : {"file"}, file : ClipboardFiles]
      \cup { [kind |-> "string", file |-> [name |-> "eq.png", type |-> TypePng]] }
NoItems == <<[kind |-> "null", file |-> NoFile]>>
ItemLists == SeqsUpTo(Items, MaxItems) \cup {NoItems}

\* event.target of a paste
NoTarget == [tagName |-> "null", isContentEditable |-> FALSE]
Targets ==
    { NoTarget,
      [tagName |-> "BODY", isContentEditable |-> FALSE],
      [tagName |-> "DIV", isContentEditable |-> TRUE],
      [tagName |-> "INPUT", isContentEditable |-> FALSE],
      [tagName |-> "TEXTAREA", isContentEditable |-> FALSE] }

\* characters String.prototype.trim removes (those that occur in Texts)
WhiteSpace == {" ", "\t", "\n"}
Alphabet == {" ", "x"}
Texts == SeqsUpTo(Alphabet, MaxTextLen) \cup {<<"\n", "x", "\t">>, <<"\t", "\n">>}

MsgKeyInside == <<"4","0","0"," ","A","P","I"," ","k","e","y"," ","n","o","t"," ","v","a","l","i","d","."," ","P","a","s","s"," ","a"," ","v","a","l","i","d"," ","k","e","y">>
MsgKeyAlmost == <<"A","P","I"," ","k","e","y"," ","n","o","t"," ","v","a","l","i">>
MsgKeyCase == <<"a","p","i"," ","k","e","y"," ","n","o","t"," ","v","a","l","i","d">>
MsgQuota == <<"q","u","o","t","a"," ","e","x","c","e","e","d","e","d">>
TypeErrorMsg == <<"C","a","n","n","o","t"," ","r","e","a","d"," ","p","r","o","p","e","r","t","i","e","s"," ","o","f"," ","u","n","d","e","f","i","n","e","d">>
RemoteErrorMsgs == {ApiKeyNeedle, MsgKeyInside, MsgKeyAlmost, MsgKeyCase, MsgQuota, <<>>}

\* What ai.models.generateContent can do: resolve with a text, resolve with
\* no text (response.text undefined), reject with an Error, reject with a
\* value that is not an Error.
Responses ==
    [kind : {"text"}, text : Texts, message : {<<>>}]
      \cup [kind : {"noText"}, text : {<<>>}, message : {<<>>}]
      \cup [kind : {"throwError"}, text : {<<>>}, message : RemoteErrorMsgs]
      \cup [kind : {"throwOther"}, text : {<<>>}, message : {<<>>}]
NoResponse == [kind |-> "none", text |-> <<>>, message |-> <<>>]

----------------------------------------------------------------------------
(* Pure string functions *)

StartsWith(s, p) == Len(s) >= Len(p) /\ SubSeq(s, 1, Len(p)) = p

Includes(s, sub) ==
    \E i \in 1..(Len(s) - Len(sub) + 1) : SubSeq(s, i, i + Len(sub) - 1) = sub

RECURSIVE TrimStart(_)
TrimStart(s) ==
    IF s # <<>> /\ Head(s) \in WhiteSpace THEN TrimStart(Tail(s)) ELSE s

RECURSIVE TrimEnd(_)
TrimEnd(s) ==
    IF s # <<>> /\ s[Len(s)] \in WhiteSpace
    THEN TrimEnd(SubSeq(s, 1, Len(s) - 1)) ELSE s

TrimLeadingOnly(s) == TrimStart(s)

Trim(s) == TrimEnd(TrimStart(s))

----------------------------------------------------------------------------
(* getLatexFromImage, lines 233-266 *)

Resolved(v) == [ok |-> TRUE, value |-> v, message |-> <<>>]
Rejected(m) == [ok |-> FALSE, value |-> <<>>, message |-> m]
Thrown(isError, m) == [thrown |-> TRUE, isError |-> isError, message |-> m, value |-> <<>>]
Returned(v) == [thrown |-> FALSE, isError |-> FALSE, message |-> <<>>, value |-> v]

\* the try block: await generateContent, response.text.trim(), the empty check
GetLatexTry(resp) ==
    CASE resp.kind = "throwError" -> Thrown(TRUE, resp.message)
      [] resp.kind = "throwOther" -> Thrown(FALSE, <<>>)
      [] resp.kind = "noText"     -> Thrown(TRUE, TypeErrorMsg)
      [] OTHER ->
            LET latex == Trim(resp.text)
            IN  IF latex = <<>> THEN Thrown(TRUE, EmptyResponseMsg)
                ELSE Returned(latex)

GetLatexCatchPrefixOnly(t) ==
    IF t.isError /\ StartsWith(t.message, ApiKeyNeedle)
    THEN Rejected(InvalidApiKeyMsg)
    ELSE Rejected(GenericFailureMsg)

\* the catch block: classify whatever the try block threw
GetLatexCatch(t) ==
    IF t.isError /\ Includes(t.message, ApiKeyNeedle)
    THEN Rejected(InvalidApiKeyMsg)
    ELSE Rejected(GenericFailureMsg)

GetLatexFromImage(resp) ==
    LET t == GetLatexTry(resp)
    IN  IF t.thrown THEN GetLatexCatch(t) ELSE Resolved(t.value)

----------------------------------------------------------------------------
(* What is rendered, lines 144-197 *)

DropZoneRendered == mounted /\ imageFile = NoImage
ClearButtonRendered == mounted /\ imageFile # NoImage
GenerateButtonRendered == mounted /\ imageFile # NoImage
GenerateButtonIgnoresLoading == GenerateButtonRendered
GenerateButtonEnabled == GenerateButtonRendered /\ ~isLoading

\* idle / ready / in-flight / resolved, as the user sees them
UIState ==
    IF imageFile = NoImage THEN "idle"
    ELSE IF isLoading THEN "inFlight"
    ELSE IF latexCode # <<>> \/ error # "" THEN "resolved"
    ELSE "ready"

\* a paste or a drop whose raw input is not recorded
NoInput == [target |-> NoTarget, items |-> NoItems, files |-> NoFiles]

\* a conversion that has not been started
NoConversion == [image |-> NoImage, pc |-> "none", readDone |-> FALSE, calls |-> 0]

Event(op, called, file, resp, escaped) ==
    [op |-> op, again |-> (ev.op = op), from |-> UIState, called |-> called,
     file |-> file, resp |-> resp, escaped |-> escaped,
     conv |-> NoConversion, rejected |-> <<>>, input |-> NoInput]

----------------------------------------------------------------------------
(* The cleanup effect on imageFile, lines 59-65 *)

RevokeCleanupMissing(img, rc) == rc

\* the cleanup function of the render in which imageFile was `img`
RevokeCleanup(img, rc) ==
    IF img # NoImage THEN [rc EXCEPT ![img.preview] = @ + 1] ELSE rc

\* dependency list [imageFile]: the cleanup runs when imageFile changes
EffectOnCommit(old, new, rc) ==
    IF old # new THEN RevokeCleanup(old, rc) ELSE rc

----------------------------------------------------------------------------
(* Handlers *)

IsImageFile(file) == file # NoFile /\ StartsWith(file.type, ImagePrefix)

ProcessFileKeepsResult(file) ==
    IF IsImageFile(file)
    THEN /\ nextHandle <= MaxHandles
         /\ imageFile' = [file |-> file, preview |-> nextHandle]
         /\ nextHandle' = nextHandle + 1
         /\ error' = ""
         /\ revokeCount' = EffectOnCommit(imageFile, imageFile', revokeCount)
         /\ UNCHANGED latexCode
    ELSE /\ error' = InvalidFileMsg
         /\ UNCHANGED <<imageFile, nextHandle, latexCode, revokeCount>>

ProcessFileDropsImageOnInvalid(file) ==
    IF IsImageFile(file)
    THEN /\ nextHandle <= MaxHandles
         /\ imageFile' = [file |-> file, preview |-> nextHandle]
         /\ nextHandle' = nextHandle + 1
         /\ latexCode' = <<>>
         /\ error' = ""
         /\ revokeCount' = EffectOnCommit(imageFile, imageFile', revokeCount)
    ELSE /\ error' = InvalidFileMsg
         /\ imageFile' = NoImage
         /\ revokeCount' = EffectOnCommit(imageFile, NoImage, revokeCount)
         /\ UNCHANGED <<nextHandle, latexCode>>

\* processFile, lines 20-31
ProcessFile(file) ==
    IF IsImageFile(file)
    THEN /\ nextHandle <= MaxHandles
         /\ imageFile' = [file |-> file, preview |-> nextHandle]
         /\ nextHandle' = nextHandle + 1
         /\ latexCode' = <<>>
         /\ error' = ""
         /\ revokeCount' = EffectOnCommit(imageFile, imageFile', revokeCount)
    ELSE /\ error' = InvalidFileMsg
         /\ UNCHANGED <<imageFile, nextHandle, latexCode, revokeCount>>

LastFile(files) == IF files = NoFiles \/ files = <<>> THEN NoFile ELSE files[Len(files)]

\* files?.[0] ?? null, line 68
FirstFile(files) == IF files = NoFiles \/ files = <<>> THEN NoFile ELSE files[1]

\* handleFileChange, lines 67-69
HandleFileChange(files) ==
    /\ ProcessFile(FirstFile(files))
    /\ ev' = Event("fileChange", TRUE, FirstFile(files), NoResponse, FALSE)
    /\ UNCHANGED <<isLoading, isDragging, mounted, inflight>>

LastImageItem(items) ==
    LET hits == { i \in 1..Len(items) :
                    items[i].kind = "file" /\ StartsWith(items[i].file.type, ImagePrefix) }
    IN  IF hits = {} THEN 0 ELSE CHOOSE i \in hits : \A j \in hits : i >= j

\* first clipboard item of kind "file" with an image type, lines 43-50; 0 if none
FirstImageItem(items) ==
    LET hits == { i \in 1..Len(items) :
                    items[i].kind = "file" /\ StartsWith(items[i].file.type, ImagePrefix) }
    IN  IF hits = {} THEN 0 ELSE CHOOSE i \in hits : \A j \in hits : i <= j

\* line 36
IsEditableTarget(target) ==
    /\ target # NoTarget
    /\ \/ target.isContentEditable
       \/ target.tagName = "INPUT"
       \/ target.tagName = "TEXTAREA"

\* handlePaste, lines 34-51; `input` is what the history keeps of the event
PasteHandler(target, items, input) ==
    IF IsEditableTarget(target) \/ items = NoItems \/ FirstImageItem(items) = 0
    THEN /\ ev' = [Event("paste", FALSE, NoFile, NoResponse, FALSE)
                     EXCEPT !.input = input]
         /\ UNCHANGED <<imageFile, latexCode, isLoading, error, isDragging, mounted,
                        nextHandle, revokeCount, inflight>>
    ELSE /\ ProcessFile(items[FirstImageItem(items)].file)
         /\ ev' = [Event("paste", TRUE, items[FirstImageItem(items)].file,
                          NoResponse, FALSE)
                     EXCEPT !.input = input]
         /\ UNCHANGED <<isLoading, isDragging, mounted, inflight>>

HandlePaste(target, items) == PasteHandler(target, items, NoInput)

\* handleDragEnter, lines 76-79
HandleDragEnter ==
    /\ isDragging' = TRUE
    /\ ev' = Event("dragEnter", FALSE, NoFile, NoResponse, FALSE)
    /\ UNCHANGED <<imageFile, latexCode, isLoading, error, mounted, nextHandle,
                   revokeCount, inflight>>

\* handleDragLeave, lines 81-84
HandleDragLeave ==
    /\ isDragging' = FALSE
    /\ ev' = Event("dragLeave", FALSE, NoFile, NoResponse, FALSE)
    /\ UNCHANGED <<imageFile, latexCode, isLoading, error, mounted, nextHandle,
                   revokeCount, inflight>>

\* handleDrop, lines 86-93; `input` is what the history keeps of the event
DropHandler(files, input) ==
    /\ isDragging' = FALSE
    /\ IF files # NoFiles /\ Len(files) > 0
       THEN /\ ProcessFile(FirstFile(files))
            /\ ev' = [Event("drop", TRUE, FirstFile(files), NoResponse, FALSE)
                        EXCEPT !.input = input]
       ELSE /\ ev' = [Event("drop", FALSE, NoFile, NoResponse, FALSE)
                        EXCEPT !.input = input]
            /\ UNCHANGED <<imageFile, latexCode, error, nextHandle, revokeCount>>
    /\ UNCHANGED <<isLoading, mounted, inflight>>

HandleDrop(files) == DropHandler(files, NoInput)

HandleGenerateClickUnguarded ==
    /\ Len(inflight) < MaxConv
    /\ isLoading' = TRUE
    /\ error' = ""
    /\ latexCode' = <<>>
    /\ inflight' = Append(inflight, [image |-> imageFile, pc |-> "reading",
                                     readDone |-> FALSE, calls |-> 0])
    /\ ev' = Event("generate", TRUE, imageFile.file, NoResponse, FALSE)
    /\ UNCHANGED <<imageFile, isDragging, mounted, nextHandle, revokeCount>>

HandleGenerateClickCallsAtOnce ==
    IF imageFile = NoImage
    THEN /\ error' = NoImageMsg
         /\ ev' = Event("generate", FALSE, NoFile, NoResponse, FALSE)
         /\ UNCHANGED <<imageFile, latexCode, isLoading, isDragging, mounted,
                        nextHandle, revokeCount, inflight>>
    ELSE /\ Len(inflight) < MaxConv
         /\ isLoading' = TRUE
         /\ error' = ""
         /\ latexCode' = <<>>
         /\ inflight' = Append(inflight, [image |-> imageFile, pc |-> "calling",
                                          readDone |-> FALSE, calls |-> 1])
         /\ ev' = Event("generate", TRUE, imageFile.file, NoResponse, FALSE)
         /\ UNCHANGED <<imageFile, isDragging, mounted, nextHandle, revokeCount>>

\* handleGenerateClick up to its return, lines 95-107: the guard, the three
\* setters and reader.readAsDataURL, which starts the byte read
HandleGenerateClick ==
    IF imageFile = NoImage
    THEN /\ error' = NoImageMsg
         /\ ev' = Event("generate", FALSE, NoFile, NoResponse, FALSE)
         /\ UNCHANGED <<imageFile, latexCode, isLoading, isDragging, mounted,
                        nextHandle, revokeCount, inflight>>
    ELSE /\ Len(inflight) < MaxConv
         /\ isLoading' = TRUE
         /\ error' = ""
         /\ latexCode' = <<>>
         /\ inflight' = Append(inflight, [image |-> imageFile, pc |-> "reading",
                                          readDone |-> FALSE, calls |-> 0])
         /\ ev' = Event("generate", TRUE, imageFile.file, NoResponse, FALSE)
         /\ UNCHANGED <<imageFile, isDragging, mounted, nextHandle, revokeCount>>

HandleClearImageKeepsError ==
    /\ imageFile' = NoImage
    /\ latexCode' = <<>>
    /\ revokeCount' = EffectOnCommit(imageFile, NoImage, revokeCount)
    /\ ev' = Event("clearImage", FALSE, NoFile, NoResponse, FALSE)
    /\ UNCHANGED <<error, isLoading, isDragging, mounted, nextHandle, inflight>>

HandleClearImageComplains ==
    /\ imageFile' = NoImage
    /\ latexCode' = <<>>
    /\ error' = IF imageFile = NoImage THEN NoImageMsg ELSE ""
    /\ revokeCount' = EffectOnCommit(imageFile, NoImage, revokeCount)
    /\ ev' = Event("clearImage", FALSE, NoFile, NoResponse, FALSE)
    /\ UNCHANGED <<isLoading, isDragging, mounted, nextHandle, inflight>>

\* clearImage, lines 125-129, and the effect cleanup its commit triggers
HandleClearImage ==
    /\ imageFile' = NoImage
    /\ latexCode' = <<>>
    /\ error' = ""
    /\ revokeCount' = EffectOnCommit(imageFile, NoImage, revokeCount)
    /\ ev' = Event("clearImage", FALSE, NoFile, NoResponse, FALSE)
    /\ UNCHANGED <<isLoading, isDragging, mounted, nextHandle, inflight>>

Remove(seq, i) == SubSeq(seq, 1, i - 1) \o SubSeq(seq, i + 1, Len(seq))

\* reader.onloadend after a successful read, lines 108-111: the payload is
\* taken from reader.result and getLatexFromImage dispatches the remote call
ReadLoaded(i) ==
    /\ inflight[i].pc = "reading"
    /\ inflight' = [inflight EXCEPT ![i].pc = "calling", ![i].readDone = TRUE,
                                    ![i].calls = @ + 1]
    /\ ev' = Event("readLoaded", FALSE, NoFile, NoResponse, FALSE)
    /\ UNCHANGED <<imageFile, latexCode, isLoading, error, isDragging, mounted,
                   nextHandle, revokeCount>>

ReadFailedKeepsLoading(i) ==
    /\ inflight[i].pc = "reading"
    /\ inflight' = Remove(inflight, i)
    /\ IF mounted
       THEN error' = ReadFailedMsg /\ UNCHANGED isLoading
       ELSE UNCHANGED <<error, isLoading>>
    /\ ev' = [Event("readFailed", FALSE, NoFile, NoResponse, TRUE)
                EXCEPT !.conv = inflight[i]]
    /\ UNCHANGED <<imageFile, latexCode, isDragging, mounted, nextHandle, revokeCount>>

\* a failed read: reader.onerror, lines 115-118, then reader.onloadend with
\* reader.result null, whose split (line 109) throws inside the async callback
ReadFailed(i) ==
    /\ inflight[i].pc = "reading"
    /\ inflight' = Remove(inflight, i)
    /\ IF mounted
       THEN error' = ReadFailedMsg /\ isLoading' = FALSE
       ELSE UNCHANGED <<error, isLoading>>
    /\ ev' = [Event("readFailed", FALSE, NoFile, NoResponse, TRUE)
                EXCEPT !.conv = inflight[i]]
    /\ UNCHANGED <<imageFile, latexCode, isDragging, mounted, nextHandle, revokeCount>>

\* the remote call settles and the rest of reader.onloadend runs, lines
\* 111-113; when getLatexFromImage rejects, the await throws and lines
\* 112-113 are skipped: the callback's promise rejects with no handler
RemoteSettled(i, resp) ==
    LET r == GetLatexFromImage(resp)
    IN  /\ inflight[i].pc = "calling"
        /\ inflight' = Remove(inflight, i)
        /\ IF r.ok /\ mounted
           THEN latexCode' = r.value /\ isLoading' = FALSE
           ELSE UNCHANGED <<latexCode, isLoading>>
        /\ ev' = [Event("remoteSettled", FALSE, NoFile, resp, ~r.ok)
                    EXCEPT !.conv = inflight[i], !.rejected = r.message]
        /\ UNCHANGED <<imageFile, error, isDragging, mounted, nextHandle, revokeCount>>

\* the component is torn down: every effect cleanup runs once more
HandleUnmount ==
    /\ mounted' = FALSE
    /\ revokeCount' = RevokeCleanup(imageFile, revokeCount)
    /\ ev' = Event("unmount", FALSE, NoFile, NoResponse, FALSE)
    /\ UNCHANGED <<imageFile, latexCode, isLoading, error, isDragging, nextHandle,
                   inflight>>

----------------------------------------------------------------------------
(* The component as the user drives it: an event reaches a handler only    *)
(* through an element that is rendered (and, for a button, enabled).       *)

Init ==
    /\ imageFile = NoImage
    /\ latexCode = <<>>
    /\ isLoading = FALSE
    /\ error = ""
    /\ isDragging = FALSE
    /\ mounted = TRUE
    /\ nextHandle = 1
    /\ revokeCount = [h \in 1..MaxHandles |-> 0]
    /\ inflight = <<>>
    /\ ev = [op |-> "init", again |-> FALSE, from |-> "idle", called |-> FALSE,
             file |-> NoFile, resp |-> NoResponse, escaped |-> FALSE,
             conv |-> NoConversion, rejected |-> <<>>, input |-> NoInput]

FileChange == DropZoneRendered /\ \E files \in FileLists : HandleFileChange(files)
DragEnter == DropZoneRendered /\ HandleDragEnter
DragLeave == DropZoneRendered /\ HandleDragLeave
Drop == DropZoneRendered /\ \E files \in FileLists \ {NoFiles} : HandleDrop(files)
Paste == mounted /\ \E target \in Targets, items \in ItemLists : HandlePaste(target, items)
GenerateClick == GenerateButtonEnabled /\ HandleGenerateClick
ClearClick == ClearButtonRendered /\ HandleClearImage
ReadLoad == \E i \in DOMAIN inflight : ReadLoaded(i)
ReadError == \E i \in DOMAIN inflight : ReadFailed(i)
RemoteSettle == \E i \in DOMAIN inflight, resp \in Responses : RemoteSettled(i, resp)
Unmount == mounted /\ HandleUnmount

Next ==
    \/ FileChange
    \/ DragEnter
    \/ DragLeave
    \/ Drop
    \/ Paste
    \/ GenerateClick
    \/ ClearClick
    \/ ReadLoad
    \/ ReadError
    \/ RemoteSettle
    \/ Unmount

Spec == Init /\ [][Next]_vars

----------------------------------------------------------------------------
(* The handlers called directly, in any state of a mounted component: the  *)
(* contract of each handler on its own, without what the rendering rules   *)
(* out.  handleGenerateClick is called where its button is absent or       *)
(* enabled; a call while the button is disabled is left out.               *)

CallFileChange == mounted /\ \E files \in FileLists : HandleFileChange(files)
CallDragEnter == mounted /\ HandleDragEnter
CallDragLeave == mounted /\ HandleDragLeave
CallDrop == mounted /\ \E files \in FileLists : HandleDrop(files)
CallGenerateClick == mounted /\ (imageFile = NoImage \/ ~isLoading) /\ HandleGenerateClick
CallClearImage == mounted /\ HandleClearImage

NextCall ==
    \/ CallFileChange
    \/ CallDragEnter
    \/ CallDragLeave
    \/ CallDrop
    \/ Paste
    \/ CallGenerateClick
    \/ CallClearImage
    \/ ReadLoad
    \/ ReadError
    \/ RemoteSettle
    \/ Unmount

SpecCall == Init /\ [][NextCall]_vars

----------------------------------------------------------------------------
(* The input channels with the raw input of each paste and drop kept in    *)
(* the history, so that what the handler did can be compared with what it  *)
(* was given.  With the paste recorded, images arrive by paste only and a  *)
(* conversion ends with a failed read; with the drop recorded, everything  *)
(* else is as the user drives it.                                          *)

PasteInput(target, items) == [target |-> target, items |-> items, files |-> NoFiles]
DropInput(files) == [target |-> NoTarget, items |-> NoItems, files |-> files]

TracedPaste ==
    mounted /\ \E target \in Targets, items \in ItemLists :
                  PasteHandler(target, items, PasteInput(target, items))
TracedDrop ==
    DropZoneRendered /\ \E files \in FileLists \ {NoFiles} :
                           DropHandler(files, DropInput(files))

NextPaste ==
    \/ TracedPaste
    \/ GenerateClick
    \/ ClearClick
    \/ ReadError

SpecPaste == Init /\ [][NextPaste]_vars

NextDrop ==
    \/ TracedDrop
    \/ FileChange
    \/ DragEnter
    \/ DragLeave
    \/ Paste
    \/ GenerateClick
    \/ ClearClick
    \/ ReadLoad
    \/ ReadError
    \/ RemoteSettle
    \/ Unmount

SpecDrop == Init /\ [][NextDrop]_vars

----------------------------------------------------------------------------
(* Properties *)

\* the last event handed a candidate to processFile
ProcessFileCalled == ev.called /\ ev.op \in {"fileChange", "paste", "drop"}

\* C1: when the byte read and the remote call of a conversion have completed
\* (the call settled with a text or with an error) in a mounted component,
\* latexCode holds a result or error holds a message, and no failure
\* escaped uncaught.
C1_EveryConversionEndsWithOneOutcome ==
    mounted /\ ev.op = "remoteSettled"
        => /\ latexCode # <<>> \/ error # ""
           /\ ~ev.escaped

\* C2: a remote text that is empty after trimming makes getLatexFromImage
\* fail with the empty-response message and no other.
C2_EmptyTextYieldsEmptyResponseMessage ==
    ev.op = "remoteSettled" /\ ev.resp.kind = "text" /\ Trim(ev.resp.text) = <<>>
        => /\ ~GetLatexFromImage(ev.resp).ok
           /\ GetLatexFromImage(ev.resp).message = EmptyResponseMsg

\* C3: at most one conversion is in flight, and while one is in flight
\* isLoading is true and the Generate button is not enabled.
C3_SingleFlight ==
    /\ Len(inflight) <= 1
    /\ inflight # <<>> => isLoading /\ ~GenerateButtonEnabled

\* a conversion is in flight and the image it was started on has just been
\* replaced by a paste
C3_Witness ==
    /\ Len(inflight) = 1
    /\ ev.op = "paste" /\ ev.called
    /\ imageFile # inflight[1].image

\* C4: in no state can the user invoke clearImage while a conversion is in
\* flight (isLoading true, outcome not yet delivered).
C4_ClearNotReachableInFlight ==
    ~(ClearButtonRendered /\ isLoading /\ inflight # <<>>)

\* C5: error and latexCode are never both non-empty.
C5_ErrorAndResultExclusive ==
    ~(error # "" /\ latexCode # <<>>)

\* C6: every object URL created so far has been revoked exactly once, except
\* the one of the image currently selected in a mounted component, which has
\* not been revoked; none is revoked twice and none is left after teardown.
C6_HandlesRevokedExactlyOnce ==
    \A h \in DOMAIN revokeCount :
        IF h >= nextHandle THEN revokeCount[h] = 0
        ELSE IF mounted /\ imageFile.preview = h THEN revokeCount[h] = 0
        ELSE revokeCount[h] = 1

\* the component was torn down with an image selected, after an earlier
\* image had been replaced or cleared
C6_Witness ==
    /\ ~mounted /\ ev.op = "unmount"
    /\ imageFile # NoImage /\ imageFile.preview > 1
    /\ revokeCount[imageFile.preview] = 1

\* C7: after processFile is called with a file whose type begins with
\* "image/", that file is the selected image and latexCode and error are empty.
C7_ValidImageSelected ==
    ProcessFileCalled /\ ev.file # NoFile /\ StartsWith(ev.file.type, ImagePrefix)
        => /\ imageFile # NoImage
           /\ imageFile.file = ev.file
           /\ latexCode = <<>>
           /\ error = ""

\* processFile accepted an image while an earlier image and its outcome
\* were shown
C7_Witness ==
    /\ ProcessFileCalled /\ ev.from = "resolved"
    /\ imageFile # NoImage /\ imageFile.file = ev.file /\ imageFile.preview > 1

\* C8: a processFile call with an absent file, or one whose type does not
\* begin with "image/", leaves the selected image and every object URL as
\* they were and sets error to the invalid-file message.
C8_InvalidInputRejected ==
    [][ (ProcessFileCalled' /\ ~(ev'.file # NoFile /\ StartsWith(ev'.file.type, ImagePrefix)))
          => /\ imageFile' = imageFile
             /\ nextHandle' = nextHandle
             /\ revokeCount' = revokeCount
             /\ error' = InvalidFileMsg ]_vars

\* processFile rejected a file that is not an image while an image was selected
C8_Witness ==
    /\ ProcessFileCalled /\ ev.file # NoFile /\ ~StartsWith(ev.file.type, ImagePrefix)
    /\ imageFile # NoImage
    /\ error = InvalidFileMsg

\* C9: clearImage invoked in the ready or the resolved state leaves the idle
\* state: no image, no result, no error, not loading.
C9_ClearYieldsIdle ==
    ev.op = "clearImage" /\ ev.from \in {"ready", "resolved"}
        => /\ imageFile = NoImage
           /\ latexCode = <<>>
           /\ error = ""
           /\ ~isLoading
           /\ UIState = "idle"

\* clearImage ran in the resolved state
C9_Witness ==
    ev.op = "clearImage" /\ ev.from = "resolved" /\ imageFile = NoImage

\* C10: a clearImage that directly follows a clearImage changes no state
\* variable and revokes nothing.
C10_ClearIdempotent ==
    [][ (ev.op = "clearImage" /\ ev'.op = "clearImage")
          => UNCHANGED <<imageFile, latexCode, error, isLoading, isDragging,
                         revokeCount>> ]_vars

\* clearImage ran twice in a row, the first time on a selected image
C10_Witness ==
    /\ ev.op = "clearImage" /\ ev.again /\ ev.from = "idle"
    /\ \E h \in DOMAIN revokeCount : revokeCount[h] = 1

\* C11: handleGenerateClick called with no selected image starts no byte
\* read and no remote call, leaves isLoading as it was and sets error to the
\* no-image message.
C11_GenerateWithoutImage ==
    [][ (ev'.op = "generate" /\ imageFile = NoImage)
          => /\ inflight' = inflight
             /\ isLoading' = isLoading
             /\ ~ev'.called
             /\ error' = NoImageMsg ]_vars

\* handleGenerateClick ran with no image selected
C11_Witness ==
    /\ ev.op = "generate" /\ ev.from = "idle" /\ ~ev.called
    /\ imageFile = NoImage /\ error = NoImageMsg /\ inflight = <<>>

\* m contains the text 'API key not valid'
ContainsApiKeyNotValid(m) ==
    \E i \in 1..Len(m) :
        \A k \in 1..Len(ApiKeyNeedle) :
            i + k - 1 <= Len(m) /\ m[i + k - 1] = ApiKeyNeedle[k]

\* C12: when the remote call itself fails, getLatexFromImage rejects with
\* the invalid-key message if the failure is an Error whose message contains
\* 'API key not valid' and with the generic message otherwise; the call was
\* made once and the conversion is over (no retry).
C12_RemoteFailureClassified ==
    ev.op = "remoteSettled" /\ ev.resp.kind \in {"throwError", "throwOther"}
        => /\ ev.escaped
           /\ ev.rejected =
                IF ev.resp.kind = "throwError" /\ ContainsApiKeyNotValid(ev.resp.message)
                THEN InvalidApiKeyMsg ELSE GenericFailureMsg
           /\ ev.conv.calls = 1
           /\ \A i \in DOMAIN inflight : inflight[i] # ev.conv

\* the remote call failed with the key text inside a longer message
C12_Witness ==
    /\ ev.op = "remoteSettled" /\ ev.resp.kind = "throwError"
    /\ ev.resp.message = MsgKeyInside
    /\ ev.rejected = InvalidApiKeyMsg

\* C13: after a conversion succeeds in a mounted component, latexCode is
\* the remote text without its leading and trailing whitespace, and it is
\* not empty.
C13_SuccessIsTrimmedText ==
    mounted /\ ev.op = "remoteSettled" /\ ~ev.escaped
        => /\ ev.resp.kind = "text"
           /\ latexCode # <<>>
           /\ latexCode[1] \notin WhiteSpace
           /\ latexCode[Len(latexCode)] \notin WhiteSpace
           /\ \E i \in 1..Len(ev.resp.text) :
                /\ latexCode = SubSeq(ev.resp.text, i, i + Len(latexCode) - 1)
                /\ \A k \in 1..Len(ev.resp.text) :
                     (k < i \/ k >= i + Len(latexCode)) => ev.resp.text[k] \in WhiteSpace

\* a text with whitespace on both sides was returned and shown trimmed
C13_Witness ==
    /\ mounted /\ ev.op = "remoteSettled" /\ ~ev.escaped
    /\ ev.resp.text = <<" ", "x", " ">>
    /\ latexCode = <<"x">>

\* C14: when the byte read of a conversion fails in a mounted component,
\* error is the read-failure message, isLoading is false and no remote call
\* was made for that conversion.
C14_ReadFailure ==
    mounted /\ ev.op = "readFailed"
        => /\ error = ReadFailedMsg
           /\ ~isLoading
           /\ ev.conv.calls = 0
           /\ \A i \in DOMAIN inflight : inflight[i] # ev.conv

\* the read of a conversion failed while the component was loading
C14_Witness ==
    /\ mounted /\ ev.op = "readFailed" /\ ev.from = "inFlight"
    /\ error = ReadFailedMsg

\* C15: a conversion has its remote call dispatched only once its byte read
\* has completed, and a result or the end of loading appears only in the
\* step that completes that conversion: after its remote call has settled,
\* or when its read failed before any remote call.
C15_StepsInOrder ==
    [][ /\ \A i \in DOMAIN inflight' :
             (inflight'[i].pc = "calling" \/ inflight'[i].calls > 0)
                => inflight'[i].readDone /\ inflight'[i].calls = 1
        /\ (latexCode' # latexCode /\ latexCode' # <<>>)
             => /\ ev'.op = "remoteSettled"
                /\ ev'.conv.readDone /\ ev'.conv.calls = 1
        /\ (isLoading /\ ~isLoading')
             => \/ /\ ev'.op = "remoteSettled"
                   /\ ev'.conv.readDone /\ ev'.conv.calls = 1
                \/ /\ ev'.op = "readFailed"
                   /\ ~ev'.conv.readDone /\ ev'.conv.calls = 0 ]_vars

\* a conversion ran through read, remote call and result
C15_Witness ==
    /\ mounted /\ ev.op = "remoteSettled" /\ ~ev.escaped
    /\ ev.conv.readDone /\ ev.conv.calls = 1
    /\ latexCode # <<>> /\ ~isLoading

\* type begins with "image/"
BeginsWithImage(type) ==
    Len(type) >= Len(ImagePrefix) /\ \A k \in 1..Len(ImagePrefix) : type[k] = ImagePrefix[k]

\* the clipboard items of a paste that are files of an image type
QualifyingItems(items) ==
    { i \in 1..Len(items) : items[i].kind = "file" /\ BeginsWithImage(items[i].file.type) }

\* the target of a paste is content-editable, an INPUT or a TEXTAREA
EditableTarget(target) ==
    target # NoTarget /\ (target.isContentEditable \/ target.tagName \in {"INPUT", "TEXTAREA"})

\* C16: a paste whose target is editable, or whose clipboard holds no file
\* item of an image type, changes no state variable; any other paste hands
\* exactly the first such item to processFile, which selects it.
C16_PasteFrame ==
    [][ ev'.op = "paste"
          => LET target == ev'.input.target
                 items == ev'.input.items
                 hits == QualifyingItems(items)
             IN  IF EditableTarget(target) \/ hits = {}
                 THEN /\ ~ev'.called
                      /\ UNCHANGED <<imageFile, latexCode, isLoading, error, isDragging,
                                     mounted, nextHandle, revokeCount, inflight>>
                 ELSE /\ ev'.called
                      /\ \E j \in hits : ev'.file = items[j].file /\ \A k \in hits : j <= k
                      /\ imageFile' # NoImage /\ imageFile'.file = ev'.file
                      /\ UNCHANGED <<isLoading, isDragging, mounted, inflight>> ]_vars

\* two different images were pasted at once and the first was selected
C16_Witness ==
    /\ ev.op = "paste" /\ ev.called
    /\ Len(ev.input.items) = 2
    /\ QualifyingItems(ev.input.items) = {1, 2}
    /\ ev.input.items[1].file # ev.input.items[2].file
    /\ imageFile # NoImage /\ imageFile.file = ev.input.items[1].file

\* C17: drag-enter sets isDragging and drag-leave resets it, neither changes
\* imageFile, latexCode, error or isLoading; a drop resets isDragging and,
\* when files were dropped, hands exactly the first to processFile, and
\* otherwise changes nothing else.
C17_DragAndDropFrame ==
    [][ /\ ev'.op = "dragEnter"
             => isDragging' /\ UNCHANGED <<imageFile, latexCode, error, isLoading>>
        /\ ev'.op = "dragLeave"
             => ~isDragging' /\ UNCHANGED <<imageFile, latexCode, error, isLoading>>
        /\ ev'.op = "drop"
             => /\ ~isDragging'
                /\ isLoading' = isLoading
                /\ IF Len(ev'.input.files) > 0
                   THEN /\ ev'.called
                        /\ ev'.file = ev'.input.files[1]
                        /\ IF BeginsWithImage(ev'.file.type)
                           THEN imageFile' # NoImage /\ imageFile'.file = ev'.file
                           ELSE imageFile' = imageFile /\ error' = InvalidFileMsg
                   ELSE /\ ~ev'.called
                        /\ UNCHANGED <<imageFile, latexCode, error>> ]_vars

\* two different images were dropped while dragging and the first was selected
C17_Witness ==
    /\ ev.op = "drop" /\ ev.called /\ ~isDragging
    /\ Len(ev.input.files) = 2
    /\ ev.input.files[1] # ev.input.files[2]
    /\ BeginsWithImage(ev.input.files[2].type)
    /\ imageFile # NoImage /\ imageFile.file = ev.input.files[1]

\* C18: a displayed result belongs to the selected image: when latexCode is
\* not empty an image is selected, and a result that has just arrived comes
\* from a conversion started on the image now selected.
C18_ResultBelongsToSelectedImage ==
    /\ latexCode # <<>> => imageFile # NoImage
    /\ (mounted /\ ev.op = "remoteSettled" /\ latexCode # <<>>)
          => ev.conv.image = imageFile

\* C19: in a mounted component isLoading is true only while a byte read or
\* a remote call started by handleGenerateClick is outstanding.
C19_LoadingOnlyWhileOutstanding ==
    mounted /\ isLoading => inflight # <<>>
====
